---- MODULE Spec2Model ----
(***************************************************************************)
(* golinq: lazy LINQ-style operators over Go channels.                     *)
(*                                                                         *)
(* Every operator call (From, Fibonaccis, Map, Filter, Zip, Take, Skip)    *)
(* makes one unbuffered channel and starts one goroutine that owns it.     *)
(* The model keeps one record per started goroutine (a "stage"), the       *)
(* closed flag of every channel, and the position of the calling           *)
(* goroutine (main), which builds a pipeline, runs one terminal operation  *)
(* on it (concatInts, an aggregator or countOrTimeOut) and may then close  *)
(* channels from the outside, as demo.go does.                             *)
(*                                                                         *)
(* An unbuffered send completes in the same step as the matching receive:  *)
(* the receiving goroutine's action also moves the sender past its send.   *)
(*                                                                         *)
(* Spec is the whole program.  The other specifications run the same       *)
(* actions for the pipelines main can build from a subset of the           *)
(* operators:                                                              *)
(*   SpecChain    one chain of Map, Filter and Take over From, drained;    *)
(*   SpecCompose  compositions of From, Map, Filter, Zip, Take and Skip,   *)
(*                drained;                                                 *)
(*   SpecAgg      one chain of Map, Filter and Skip over From, handed to   *)
(*                Max, First, Last, Count or Sum;                          *)
(*   SpecFib      one chain of Map, Take and Skip over From or Fibonaccis, *)
(*                drained;                                                 *)
(*   SpecTimeout  countOrTimeOut over a chain of Map and Filter over From  *)
(*                or Fibonaccis.                                           *)
(* SpecAggFair (chains handed to Max, Last, Count or Sum) and SpecTakeFair *)
(* (chains of Take, drained) state the scheduler's fairness.               *)
(*                                                                         *)
(* Go's int is modelled at the width of a 32-bit build, with two's         *)
(* complement wraparound in + and *.                                       *)
(***************************************************************************)
EXTENDS Integers, Sequences, FiniteSets, TLC

VARIABLES
    stages,     \* one record per started goroutine, in start order
    closed,     \* closed[c]: channel c has been closed
    closers,    \* closers[c]: who closed channel c, in order (stage index, or Main)
    held,       \* stack of the channel values main holds and has not yet passed on
    lastCall,   \* the operator call main made last: [op, args, ret]
    mpc,        \* position of main
    cur,        \* the channel main's terminal operation reads
    got,        \* values concatInts has received, in order
    ret,        \* <<value the terminal operation returned>>, empty before it returns
    acc,        \* local variables of the aggregator main is running
    mainClosed, \* channels main has closed from the outside
    fault       \* the run-time panic that ended the program, or NoFault

vars == <<stages, closed, closers, held, lastCall, mpc, cur, got, ret, acc, mainClosed, fault>>

----------------------------------------------------------------------------
(* Bounds of the model *)

\* goroutines one run may start
MaxStages == 3
\* longest slice given to From
MaxLen == 2
\* largest count given to Take and Skip
MaxCount == 2
\* values one Fibonaccis goroutine may send in a run: up to the first that
\* does not fit a 32-bit int
MaxFib == 47

----------------------------------------------------------------------------
(* Values *)

\* channel values main holds at once: the two arguments of Zip
MaxHeld == 2

\* the nil channel
Nil == 0
\* the caller in closers
Main == 0
\* fault is <<panic message, goroutine>>
NoFault == <<"none", 0>>
\* the sentinel countOrTimeOut returns on timeout
TimedOut == -1

\* element values of the slices
Vals == {-1, 2}

RECURSIVE SeqsUpTo(_)
SeqsUpTo(n) ==
    IF n = 0 THEN {<<>>}
    ELSE LET shorter == SeqsUpTo(n - 1)
         IN shorter \cup {Append(l, v) : l \in {m \in shorter : Len(m) = n - 1}, v \in Vals}

Slices == SeqsUpTo(MaxLen)
Counts == 0..MaxCount

\* Go's int is 32 or 64 bits wide, as the build target has it; the model takes
\* the 32-bit build (GOARCH=386, arm), whose values are the integers TLC holds
IntBits == 32
MaxInt == (2^(IntBits - 2) - 1) + 2^(IntBits - 2)
MinInt == (-MaxInt) - 1

\* a + b on int: two's complement, the sum wraps around silently
IntAdd(a, b) ==
    IF a > 0 /\ b > 0 /\ a > MaxInt - b THEN (a - MaxInt - 1) + (b - MaxInt - 1)
    ELSE IF a < 0 /\ b < 0 /\ a < MinInt - b THEN (a + MaxInt + 1) + (b + MaxInt + 1)
    ELSE a + b

\* the bytes of the two's complement of x, least significant first
NumBytes == IntBits \div 8
Bytes(x) == [i \in 0..(NumBytes - 1) |-> (x \div (2^(8 * i))) % (2^8)]

\* the column sums of the long multiplication of two byte strings
RECURSIVE Column(_, _, _, _)
Column(x, y, k, i) ==
    IF i > k THEN 0 ELSE x[i] * y[k - i] + Column(x, y, k, i + 1)

\* the carry out of column k - 1 into column k
RECURSIVE Carry(_, _, _)
Carry(x, y, k) ==
    IF k = 0 THEN 0 ELSE (Column(x, y, k - 1, 0) + Carry(x, y, k - 1)) \div (2^8)

\* the int whose two's complement has byte k equal to digit(k)
RECURSIVE FromBytes(_, _, _)
FromBytes(x, y, k) ==
    LET d == (Column(x, y, k, 0) + Carry(x, y, k)) % (2^8)
    IN IF k = NumBytes - 1
       THEN (IF d >= 2^7 THEN d - 2^8 ELSE d) * (2^(8 * k))
       ELSE d * (2^(8 * k)) + FromBytes(x, y, k + 1)

\* a * b on int: the low IntBits bits of the product
IntMul(a, b) == FromBytes(Bytes(a), Bytes(b), 0)

\* the functions demo.go passes to the operators
square(i) == IntMul(i, i)
isEven(i) == i % 2 = 0
product(a, b) == IntMul(a, b)

\* the local variables of the aggregators: Max's max and first, Last's last,
\* Count's count, Sum's ret; val is the value returned
Locals ==
    [pc |-> "recv", max |-> 0, first |-> TRUE, last |-> 0, count |-> 0,
     ret |-> 0, val |-> 0]

----------------------------------------------------------------------------
(* Stages *)

Transforms == {"Map", "Filter", "Zip", "Take", "Skip"}

\* a stage record; out is the channel it made, src and src2 the channels it reads
Stage(kind, src, src2, out, pc) ==
    [kind |-> kind, src |-> src, src2 |-> src2, out |-> out, pc |-> pc,
     val |-> 0, count |-> 0, taken |-> 0, skipped |-> 0, list |-> <<>>,
     a |-> 0, b |-> 0, sent |-> 0, x |-> 0, hasX |-> FALSE]

StageIds == 1..Len(stages)

\* make(chan T): the channels are numbered in creation order
NewChan == Len(closed) + 1

\* the goroutine blocked in a send on channel c, if any.
\* A Fibonaccis goroutine stops being served after MaxFib values.
Senders(c) ==
    {t \in StageIds : /\ stages[t].out = c
                      /\ stages[t].pc = "send"
                      /\ (stages[t].kind = "Fibonaccis" => stages[t].sent < MaxFib)}

\* a receive on c can complete: c is closed, or a sender is waiting.
\* A receive on the nil channel blocks forever.
CanRecv(c) == c # Nil /\ (closed[c] \/ Senders(c) # {})

\* x, ok := <-c
RecvOk(c) == ~closed[c]
RecvVal(c) == IF closed[c] THEN 0 ELSE stages[CHOOSE t \in Senders(c) : TRUE].val


\* (mutation of FromSent: the loop ends one element early)
FromSentEarly(st) ==
    IF st.sent + 2 >= Len(st.list)
    THEN [st EXCEPT !.sent = @ + 1, !.pc = "close"]
    ELSE [st EXCEPT !.sent = @ + 1, !.val = st.list[st.sent + 2]]

\* From's goroutine after a send: the next element, or close(output)
FromSent(st) ==
    IF st.sent + 1 >= Len(st.list)
    THEN [st EXCEPT !.sent = @ + 1, !.pc = "close"]
    ELSE [st EXCEPT !.sent = @ + 1, !.val = st.list[st.sent + 2]]

\* (mutation of FibSent: a = b is left out)
FibSentKeepsA(st) ==
    IF st.sent = 0 THEN [st EXCEPT !.sent = 1, !.val = st.b]
    ELSE IF st.sent = 1 THEN [st EXCEPT !.sent = 2, !.val = IntAdd(st.a, st.b)]
    ELSE [st EXCEPT !.sent = @ + 1, !.b = st.val, !.val = IntAdd(st.a, st.val)]

\* Fibonaccis' goroutine after a send: output <- a; output <- b;
\* then forever c := a + b; output <- c; a = b; b = c
FibSent(st) ==
    IF st.sent = 0 THEN [st EXCEPT !.sent = 1, !.val = st.b]
    ELSE IF st.sent = 1 THEN [st EXCEPT !.sent = 2, !.val = IntAdd(st.a, st.b)]
    ELSE [st EXCEPT !.sent = @ + 1, !.a = st.b, !.b = st.val,
                    !.val = IntAdd(st.b, st.val)]

\* the sending goroutine once its send has completed
Sent(st) ==
    CASE st.kind = "From" -> FromSent(st)
      [] st.kind = "Fibonaccis" -> FibSent(st)
      [] st.kind = "Count" -> [st EXCEPT !.pc = "done"]
      [] OTHER -> [st EXCEPT !.sent = @ + 1, !.pc = "recv"]

\* the stages after a receive from channel c completed: a waiting sender moves on
AfterSend(c) ==
    IF closed[c] THEN stages
    ELSE LET t == CHOOSE u \in Senders(c) : TRUE
         IN [stages EXCEPT ![t] = Sent(stages[t])]

\* the stages after goroutine s received from channel c and became r
AfterRecv(s, c, r) == [AfterSend(c) EXCEPT ![s] = r]

----------------------------------------------------------------------------
(* The state after program start: nothing has been called yet *)

Init ==
    /\ stages = <<>>
    /\ closed = <<>>
    /\ closers = <<>>
    /\ held = <<>>
    /\ lastCall = [op |-> "none", args |-> <<>>, ret |-> Nil]
    /\ mpc = "build"
    /\ cur = Nil
    /\ got = <<>>
    /\ ret = <<>>
    /\ acc = Locals
    /\ mainClosed = {}
    /\ fault = NoFault

----------------------------------------------------------------------------
(* Operator calls made by main.  main evaluates a pipeline expression inside *)
(* out: held is the stack of channel values it has obtained and not yet      *)
(* passed on; a transform takes the value on top, Zip the top two.           *)

Top == held[Len(held)]
Pop(k) == SubSeq(held, 1, Len(held) - k)

\* output := make(chan T); go func() {...}()
Spawn(st) ==
    /\ Len(stages) < MaxStages
    /\ stages' = Append(stages, st)
    /\ closed' = Append(closed, FALSE)
    /\ closers' = Append(closers, <<>>)

\* the call op(args) returned channel r in place of its arguments.
\* main only starts an expression it can finish: every further value it holds
\* needs one more Zip within MaxStages.
Returned(op, args, r) ==
    /\ fault = NoFault
    /\ mpc = "build"
    /\ Len(stages) + (IF r = Nil THEN 0 ELSE 1) + (Len(held) - Len(args)) <= MaxStages
    /\ lastCall' = [op |-> op, args |-> args, ret |-> r]
    /\ held' = Append(Pop(Len(args)), r)
    /\ UNCHANGED <<mpc, cur, got, ret, acc, mainClosed, fault>>

\* a call that returns nil without starting a goroutine
ReturnedNil(op, args) ==
    /\ Returned(op, args, Nil)
    /\ UNCHANGED <<stages, closed, closers>>

\* var c chan int: the caller's absent transport
NilChan ==
    /\ Len(held) < MaxHeld
    /\ ReturnedNil("nil", <<>>)

\* make(chan int) by the caller: a transport nobody sends on or closes
MakeChan ==
    /\ Len(held) < MaxHeld
    /\ Spawn(Stage("Caller", Nil, Nil, NewChan, "idle"))
    /\ Returned("make", <<>>, NewChan)

From(source) ==
    /\ Len(held) < MaxHeld
    /\ Spawn([Stage("From", Nil, Nil, NewChan, IF source = <<>> THEN "close" ELSE "send")
                 EXCEPT !.list = source,
                        !.val = IF source = <<>> THEN 0 ELSE source[1]])
    /\ Returned("From", <<>>, NewChan)

Fibonaccis ==
    /\ Len(held) < MaxHeld
    /\ Spawn([Stage("Fibonaccis", Nil, Nil, NewChan, "send")
                 EXCEPT !.a = 1, !.b = 1, !.val = 1])
    /\ Returned("Fibonaccis", <<>>, NewChan)

MapCall(source) ==
    IF source = Nil
    THEN ReturnedNil("Map", <<source>>)
    ELSE /\ Spawn(Stage("Map", source, Nil, NewChan, "recv"))
         /\ Returned("Map", <<source>>, NewChan)

Map == Len(held) >= 1 /\ MapCall(Top)

ZipCall(xs, ys) ==
    IF xs = Nil \/ ys = Nil
    THEN ReturnedNil("Zip", <<xs, ys>>)
    ELSE /\ Spawn(Stage("Zip", xs, ys, NewChan, "recv"))
         /\ Returned("Zip", <<xs, ys>>, NewChan)

Zip == Len(held) >= 2 /\ ZipCall(held[Len(held) - 1], Top)

FilterCall(source) ==
    IF source = Nil
    THEN ReturnedNil("Filter", <<source>>)
    ELSE /\ Spawn(Stage("Filter", source, Nil, NewChan, "recv"))
         /\ Returned("Filter", <<source>>, NewChan)

Filter == Len(held) >= 1 /\ FilterCall(Top)

TakeCall(source, count) ==
    /\ Spawn([Stage("Take", source, Nil, NewChan, "recv") EXCEPT !.count = count])
    /\ Returned("Take", <<source>>, NewChan)

Take(count) == Len(held) >= 1 /\ TakeCall(Top, count)

SkipCall(source, count) ==
    /\ Spawn([Stage("Skip", source, Nil, NewChan, "recv") EXCEPT !.count = count])
    /\ Returned("Skip", <<source>>, NewChan)

Skip(count) == Len(held) >= 1 /\ SkipCall(Top, count)

----------------------------------------------------------------------------
(* One turn of each goroutine's loop, entered with the result of its receive *)

\* (mutation of MapLoop: the goroutine ends without close(output))
MapLoopNoClose(st, v, ok) ==
    IF ok THEN [st EXCEPT !.pc = "send", !.val = square(v)]
    ELSE [st EXCEPT !.pc = "done"]

\* for s := range source { output <- mapper(s) }; close(output)
MapLoop(st, v, ok) ==
    IF ok THEN [st EXCEPT !.pc = "send", !.val = square(v)]
    ELSE [st EXCEPT !.pc = "close"]

\* (mutation of FilterLoop: the predicate is not tested)
FilterLoopNoTest(st, v, ok) ==
    IF ~ok THEN [st EXCEPT !.pc = "close"]
    ELSE [st EXCEPT !.pc = "send", !.val = v]

\* for s := range source { if predicate(s) { output <- s } }; close(output)
FilterLoop(st, v, ok) ==
    IF ~ok THEN [st EXCEPT !.pc = "close"]
    ELSE IF isEven(v) THEN [st EXCEPT !.pc = "send", !.val = v]
    ELSE st

\* (mutation of TakeLoop: taken >= count ends the loop)
TakeLoopOffByOne(st, v, ok) ==
    IF ~ok THEN [st EXCEPT !.pc = "close"]
    ELSE IF st.taken + 1 >= st.count THEN [st EXCEPT !.taken = @ + 1, !.pc = "close"]
    ELSE [st EXCEPT !.taken = @ + 1, !.pc = "send", !.val = v]

\* (mutation of TakeLoop: past count the loop goes on receiving)
TakeLoopNoBreak(st, v, ok) ==
    IF ~ok THEN [st EXCEPT !.pc = "close"]
    ELSE IF st.taken + 1 > st.count THEN [st EXCEPT !.taken = @ + 1]
    ELSE [st EXCEPT !.taken = @ + 1, !.pc = "send", !.val = v]

\* for s := range source { taken++; if taken > count { break }; output <- s }
\* close(output)
TakeLoop(st, v, ok) ==
    IF ~ok THEN [st EXCEPT !.pc = "close"]
    ELSE IF st.taken + 1 > st.count THEN [st EXCEPT !.taken = @ + 1, !.pc = "close"]
    ELSE [st EXCEPT !.taken = @ + 1, !.pc = "send", !.val = v]

\* (mutation of SkipLoop: skipped >= count forwards)
SkipLoopOffByOne(st, v, ok) ==
    IF ~ok THEN [st EXCEPT !.pc = "close"]
    ELSE IF st.skipped + 1 >= st.count
         THEN [st EXCEPT !.skipped = @ + 1, !.pc = "send", !.val = v]
    ELSE [st EXCEPT !.skipped = @ + 1]

\* for s := range source { skipped++; if skipped > count { output <- s } }
\* close(output)
SkipLoop(st, v, ok) ==
    IF ~ok THEN [st EXCEPT !.pc = "close"]
    ELSE IF st.skipped + 1 > st.count
         THEN [st EXCEPT !.skipped = @ + 1, !.pc = "send", !.val = v]
    ELSE [st EXCEPT !.skipped = @ + 1]

\* (mutation of ZipX: a closed xs ends the loop before ys is received from)
ZipXBreaksEarly(st, v, ok) ==
    IF ~ok THEN [st EXCEPT !.hasX = FALSE, !.pc = "close"]
    ELSE [st EXCEPT !.x = v, !.hasX = TRUE, !.pc = "recvY"]

\* x, hasX := <-xs
ZipX(st, v, ok) == [st EXCEPT !.x = v, !.hasX = ok, !.pc = "recvY"]

\* (mutation of ZipY: only hasY is tested)
ZipYIgnoresHasX(st, v, ok) ==
    IF ~ok THEN [st EXCEPT !.pc = "close"]
    ELSE [st EXCEPT !.pc = "send", !.val = product(st.x, v)]

\* y, hasY := <-ys; if !hasX || !hasY { break }; output <- mapper(x, y)
ZipY(st, v, ok) ==
    IF ~st.hasX \/ ~ok THEN [st EXCEPT !.pc = "close"]
    ELSE [st EXCEPT !.pc = "send", !.val = product(st.x, v)]

\* (mutation of CountLoop: count++ comes before the test of more)
CountLoopCountsClose(st, v, ok) ==
    IF ~ok THEN [st EXCEPT !.pc = "send", !.val = st.count + 1]
    ELSE [st EXCEPT !.count = @ + 1]

\* (mutation of CountLoop: the test of more is inverted)
CountLoopEager(st, v, ok) ==
    IF ok THEN [st EXCEPT !.pc = "send", !.val = st.count]
    ELSE [st EXCEPT !.count = @ + 1]

\* _, more := <-source; if !more { return count }; count++
\* and, on return, ch <- gl.Count(source)
CountLoop(st, v, ok) ==
    IF ~ok THEN [st EXCEPT !.pc = "send", !.val = st.count]
    ELSE [st EXCEPT !.count = @ + 1]

Loop(st, v, ok) ==
    CASE st.kind = "Map" -> MapLoop(st, v, ok)
      [] st.kind = "Filter" -> FilterLoop(st, v, ok)
      [] st.kind = "Take" -> TakeLoop(st, v, ok)
      [] st.kind = "Skip" -> SkipLoop(st, v, ok)
      [] st.kind = "Zip" /\ st.pc = "recv" -> ZipX(st, v, ok)
      [] st.kind = "Zip" /\ st.pc = "recvY" -> ZipY(st, v, ok)
      [] st.kind = "Count" -> CountLoop(st, v, ok)

\* the channel goroutine st is waiting to receive from
RecvChan(st) == IF st.kind = "Zip" /\ st.pc = "recvY" THEN st.src2 ELSE st.src

----------------------------------------------------------------------------
(* Goroutine steps *)

\* goroutine s completes a receive and runs to its next send, receive or close
Recv(s) ==
    /\ fault = NoFault
    /\ stages[s].pc \in {"recv", "recvY"}
    /\ CanRecv(RecvChan(stages[s]))
    /\ LET c == RecvChan(stages[s])
       IN stages' = AfterRecv(s, c, Loop(stages[s], RecvVal(c), RecvOk(c)))
    /\ UNCHANGED <<closed, closers, held, lastCall, mpc, cur, got, ret, acc, mainClosed, fault>>

\* (mutation of CloseTarget: a transform closes the channel it reads)
CloseTargetInput(st) == IF st.src # Nil THEN st.src ELSE st.out

\* the channel a goroutine closes when its loop ends
CloseTarget(st) == st.out

\* close(output); closing a closed channel panics
Close(s) ==
    /\ fault = NoFault
    /\ stages[s].pc = "close"
    /\ LET c == CloseTarget(stages[s])
       IN IF closed[c]
          THEN /\ fault' = <<"close of closed channel", s>>
               /\ UNCHANGED <<stages, closed, closers>>
          ELSE /\ closed' = [closed EXCEPT ![c] = TRUE]
               /\ closers' = [closers EXCEPT ![c] = Append(@, s)]
               /\ stages' = [stages EXCEPT ![s].pc = "done"]
               /\ fault' = fault
    /\ UNCHANGED <<held, lastCall, mpc, cur, got, ret, acc, mainClosed>>

\* a send on a channel that has been closed panics
SendOnClosed(s) ==
    /\ fault = NoFault
    /\ stages[s].pc = "send"
    /\ closed[stages[s].out]
    /\ fault' = <<"send on closed channel", s>>
    /\ UNCHANGED <<stages, closed, closers, held, lastCall, mpc, cur, got, ret, acc, mainClosed>>

MapStep(s) == stages[s].kind = "Map" /\ Recv(s)
FilterStep(s) == stages[s].kind = "Filter" /\ Recv(s)
ZipStep(s) == stages[s].kind = "Zip" /\ Recv(s)
TakeStep(s) == stages[s].kind = "Take" /\ Recv(s)
SkipStep(s) == stages[s].kind = "Skip" /\ Recv(s)
CountStep(s) == stages[s].kind = "Count" /\ Recv(s)

\* one step of the goroutine of a transform or a producer: a receive with the
\* loop turn that follows it, or its close(output)
StageStep(s) == Recv(s) \/ Close(s)

----------------------------------------------------------------------------
(* Terminal operations of main *)

\* concatInts(separator, source): "" for a nil source, else range over it
concatInts ==
    /\ fault = NoFault
    /\ mpc = "build"
    /\ Len(held) >= 1
    /\ lastCall' = [op |-> "concatInts", args |-> <<Top>>, ret |-> Nil]
    /\ held' = Pop(1)
    /\ cur' = Top
    /\ mpc' = IF Top = Nil THEN "closing" ELSE "drain"
    /\ UNCHANGED <<stages, closed, closers, got, ret, acc, mainClosed, fault>>

\* for elem := range source { builder.WriteString(...) }
concatIntsLoop ==
    /\ fault = NoFault
    /\ mpc = "drain"
    /\ CanRecv(cur)
    /\ IF RecvOk(cur)
       THEN got' = Append(got, RecvVal(cur)) /\ mpc' = mpc
       ELSE got' = got /\ mpc' = "closing"
    /\ stages' = AfterSend(cur)
    /\ UNCHANGED <<closed, closers, held, lastCall, cur, ret, acc, mainClosed, fault>>

\* (mutation of MaxLoop: the first element does not seed the running maximum)
MaxLoopNoSeed(a, v, ok) ==
    IF ~ok THEN [a EXCEPT !.pc = "return", !.val = a.max]
    ELSE [a EXCEPT !.max = IF v > a.max THEN v ELSE a.max, !.first = FALSE]

\* var max T; first := true
\* for s := range source { if first || s > max { max = s }; first = false }
\* return max
MaxLoop(a, v, ok) ==
    IF ~ok THEN [a EXCEPT !.pc = "return", !.val = a.max]
    ELSE [a EXCEPT !.max = IF a.first \/ v > a.max THEN v ELSE a.max, !.first = FALSE]

\* first := <-source; return first
FirstLoop(a, v, ok) == [a EXCEPT !.pc = "return", !.val = v]

\* var last T; for s := range source { last = s }; return last
LastLoop(a, v, ok) ==
    IF ~ok THEN [a EXCEPT !.pc = "return", !.val = a.last]
    ELSE [a EXCEPT !.last = v]

\* (mutation of SumLoop: ret = s)
SumLoopAssign(a, v, ok) ==
    IF ~ok THEN [a EXCEPT !.pc = "return", !.val = a.ret]
    ELSE [a EXCEPT !.ret = v]

\* ret = 0; for s := range source { ret += s }; return ret
SumLoop(a, v, ok) ==
    IF ~ok THEN [a EXCEPT !.pc = "return", !.val = a.ret]
    ELSE [a EXCEPT !.ret = IntAdd(a.ret, v)]

\* gl.Count called by main: CountLoop, whose return hands count to the caller
CountReturn(a, v, ok) ==
    LET st == CountLoop(a, v, ok)
    IN IF st.pc = "send" THEN [st EXCEPT !.pc = "return"] ELSE st

\* the aggregator main called
Aggregators == {"Max", "First", "Last", "Count", "Sum"}

\* one receive of the aggregator main is running
AggLoop(a, v, ok) ==
    CASE lastCall.op = "Max" -> MaxLoop(a, v, ok)
      [] lastCall.op = "First" -> FirstLoop(a, v, ok)
      [] lastCall.op = "Last" -> LastLoop(a, v, ok)
      [] lastCall.op = "Count" -> CountReturn(a, v, ok)
      [] lastCall.op = "Sum" -> SumLoop(a, v, ok)

\* main calls the aggregator op on the channel it holds
Aggregate(op) ==
    /\ fault = NoFault
    /\ mpc = "build"
    /\ Len(held) >= 1
    /\ lastCall' = [op |-> op, args |-> <<Top>>, ret |-> Nil]
    /\ held' = Pop(1)
    /\ cur' = Top
    /\ acc' = Locals
    /\ mpc' = "agg"
    /\ UNCHANGED <<stages, closed, closers, got, ret, mainClosed, fault>>

Max == Aggregate("Max")
First == Aggregate("First")
Last == Aggregate("Last")
Count == Aggregate("Count")
Sum == Aggregate("Sum")

\* main, inside the aggregator, completes a receive and runs to its next
\* receive or to its return
AggRecv ==
    /\ fault = NoFault
    /\ mpc = "agg"
    /\ CanRecv(cur)
    /\ LET a == AggLoop(acc, RecvVal(cur), RecvOk(cur))
       IN /\ acc' = a
          /\ IF a.pc = "return"
             THEN ret' = <<a.val>> /\ mpc' = "closing"
             ELSE ret' = ret /\ mpc' = mpc
    /\ stages' = AfterSend(cur)
    /\ UNCHANGED <<closed, closers, held, lastCall, cur, got, mainClosed, fault>>

MaxStep == lastCall.op = "Max" /\ AggRecv
FirstStep == lastCall.op = "First" /\ AggRecv
LastStep == lastCall.op = "Last" /\ AggRecv
CountMainStep == lastCall.op = "Count" /\ AggRecv
SumStep == lastCall.op = "Sum" /\ AggRecv

\* ch := make(chan int); go func() { ch <- gl.Count(source) }(); select {...}
countOrTimeOut ==
    /\ fault = NoFault
    /\ mpc = "build"
    /\ Len(held) >= 1
    /\ Spawn(Stage("Count", Top, Nil, NewChan, "recv"))
    /\ lastCall' = [op |-> "countOrTimeOut", args |-> <<Top>>, ret |-> Nil]
    /\ held' = Pop(1)
    /\ cur' = NewChan
    /\ mpc' = "select"
    /\ UNCHANGED <<got, ret, acc, mainClosed, fault>>

\* case res := <-ch: return res
SelectResult ==
    /\ fault = NoFault
    /\ mpc = "select"
    /\ Senders(cur) # {}
    /\ ret' = <<RecvVal(cur)>>
    /\ stages' = AfterSend(cur)
    /\ mpc' = "closing"
    /\ UNCHANGED <<closed, closers, held, lastCall, cur, got, acc, mainClosed, fault>>

\* case <-ctx.Done(): return -1
SelectTimeout ==
    /\ fault = NoFault
    /\ mpc = "select"
    /\ ret' = <<TimedOut>>
    /\ mpc' = "closing"
    /\ UNCHANGED <<stages, closed, closers, held, lastCall, cur, got, acc, mainClosed, fault>>

\* the channels main closes at the end of the demo, in program order:
\* fibs, made by Fibonaccis, then fibs2, made by Skip
Closable == {c \in StageIds : stages[c].kind \in {"Fibonaccis", "Skip"} /\ c \notin mainClosed}

\* close(fibs) by main, after its terminal operation returned
ExternalClose(c) ==
    /\ fault = NoFault
    /\ mpc = "closing"
    /\ c \in Closable
    /\ \A d \in Closable : c <= d
    /\ IF closed[c]
       THEN /\ fault' = <<"close of closed channel", Main>>
            /\ UNCHANGED <<closed, closers, mainClosed>>
       ELSE /\ closed' = [closed EXCEPT ![c] = TRUE]
            /\ closers' = [closers EXCEPT ![c] = Append(@, Main)]
            /\ mainClosed' = mainClosed \cup {c}
            /\ fault' = fault
    /\ UNCHANGED <<stages, held, lastCall, mpc, cur, got, ret, acc>>

----------------------------------------------------------------------------

Next ==
    \/ NilChan
    \/ MakeChan
    \/ \E source \in Slices : From(source)
    \/ Fibonaccis
    \/ Map
    \/ Filter
    \/ Zip
    \/ \E count \in Counts : Take(count)
    \/ \E count \in Counts : Skip(count)
    \/ concatInts
    \/ concatIntsLoop
    \/ Max
    \/ First
    \/ Last
    \/ Count
    \/ Sum
    \/ MaxStep
    \/ FirstStep
    \/ LastStep
    \/ CountMainStep
    \/ SumStep
    \/ countOrTimeOut
    \/ SelectResult
    \/ SelectTimeout
    \/ \E c \in StageIds : ExternalClose(c)
    \/ \E s \in StageIds : MapStep(s)
    \/ \E s \in StageIds : FilterStep(s)
    \/ \E s \in StageIds : ZipStep(s)
    \/ \E s \in StageIds : TakeStep(s)
    \/ \E s \in StageIds : SkipStep(s)
    \/ \E s \in StageIds : CountStep(s)
    \/ \E s \in StageIds : Close(s)
    \/ \E s \in StageIds : SendOnClosed(s)

Spec == Init /\ [][Next]_vars

\* a pipeline over one From: main makes no second source
FromOnce(source) == held = <<>> /\ From(source)

\* the programs that drain one chain of Map, Filter and Take over From
NextChain ==
    \/ \E source \in Slices : FromOnce(source)
    \/ Map
    \/ Filter
    \/ \E count \in Counts : Take(count)
    \/ concatInts
    \/ concatIntsLoop
    \/ \E s \in StageIds : MapStep(s)
    \/ \E s \in StageIds : FilterStep(s)
    \/ \E s \in StageIds : TakeStep(s)
    \/ \E s \in StageIds : Close(s)

SpecChain == Init /\ [][NextChain]_vars

\* the programs that drain a composition of From, Map, Filter, Zip, Take and
\* Skip and close nothing from the outside
NextCompose ==
    \/ \E source \in Slices : From(source)
    \/ Map
    \/ Filter
    \/ Zip
    \/ \E count \in Counts : Take(count)
    \/ \E count \in Counts : Skip(count)
    \/ concatInts
    \/ concatIntsLoop
    \/ \E s \in StageIds : MapStep(s)
    \/ \E s \in StageIds : FilterStep(s)
    \/ \E s \in StageIds : ZipStep(s)
    \/ \E s \in StageIds : TakeStep(s)
    \/ \E s \in StageIds : SkipStep(s)
    \/ \E s \in StageIds : Close(s)

SpecCompose == Init /\ [][NextCompose]_vars

\* first10Fibs := gl.Take(gl.Fibonaccis(), 10)
FirstTen == 10

\* a pipeline over one Fibonaccis
FibonaccisOnce == held = <<>> /\ Fibonaccis

\* the programs that drain one chain of Map, Take and Skip over From or
\* Fibonaccis, the demo's Take(_, 10) among them
NextFib ==
    \/ \E source \in Slices : FromOnce(source)
    \/ FibonaccisOnce
    \/ Map
    \/ \E count \in Counts \cup {FirstTen} : Take(count)
    \/ \E count \in Counts : Skip(count)
    \/ concatInts
    \/ concatIntsLoop
    \/ \E s \in StageIds : MapStep(s)
    \/ \E s \in StageIds : TakeStep(s)
    \/ \E s \in StageIds : SkipStep(s)
    \/ \E s \in StageIds : Close(s)

SpecFib == Init /\ [][NextFib]_vars

\* the programs that drain a chain of Take stages over From or Fibonaccis
NextTake ==
    \/ \E source \in Slices : FromOnce(source)
    \/ FibonaccisOnce
    \/ \E count \in Counts \cup {FirstTen} : Take(count)
    \/ concatInts
    \/ concatIntsLoop
    \/ \E s \in StageIds : TakeStep(s)
    \/ \E s \in StageIds : Close(s)

\* the Go scheduler does not leave every runnable goroutine waiting: while a
\* stage goroutine, or main inside concatInts, can take a step, one does
SpecTakeFair ==
    /\ Init
    /\ [][NextTake]_vars
    /\ WF_vars(concatIntsLoop \/ \E s \in StageIds : StageStep(s))

\* the programs that call countOrTimeOut on one chain of Map and Filter over
\* From or Fibonaccis
NextTimeout ==
    \/ \E source \in Slices : FromOnce(source)
    \/ FibonaccisOnce
    \/ Map
    \/ Filter
    \/ countOrTimeOut
    \/ SelectResult
    \/ SelectTimeout
    \/ \E s \in StageIds : MapStep(s)
    \/ \E s \in StageIds : FilterStep(s)
    \/ \E s \in StageIds : CountStep(s)
    \/ \E s \in StageIds : Close(s)

SpecTimeout == Init /\ [][NextTimeout]_vars

\* the programs that hand one chain of Map, Filter and Skip over From to an
\* aggregator
NextAgg ==
    \/ \E source \in Slices : FromOnce(source)
    \/ Map
    \/ Filter
    \/ \E count \in Counts : Skip(count)
    \/ Max
    \/ First
    \/ Last
    \/ Count
    \/ Sum
    \/ MaxStep
    \/ FirstStep
    \/ LastStep
    \/ CountMainStep
    \/ SumStep
    \/ \E s \in StageIds : MapStep(s)
    \/ \E s \in StageIds : FilterStep(s)
    \/ \E s \in StageIds : SkipStep(s)
    \/ \E s \in StageIds : Close(s)

SpecAgg == Init /\ [][NextAgg]_vars

\* the programs that hand one chain of Map, Filter and Skip over From to an
\* aggregator that ranges over its input: Max, Last, Count or Sum
NextDrain ==
    \/ \E source \in Slices : FromOnce(source)
    \/ Map
    \/ Filter
    \/ \E count \in Counts : Skip(count)
    \/ Max
    \/ Last
    \/ Count
    \/ Sum
    \/ MaxStep
    \/ LastStep
    \/ CountMainStep
    \/ SumStep
    \/ \E s \in StageIds : MapStep(s)
    \/ \E s \in StageIds : FilterStep(s)
    \/ \E s \in StageIds : SkipStep(s)
    \/ \E s \in StageIds : Close(s)

\* the Go scheduler does not leave every runnable goroutine waiting: while a
\* stage goroutine, or main inside its aggregator, can take a step, one does
SpecAggFair ==
    /\ Init
    /\ [][NextDrain]_vars
    /\ WF_vars(AggRecv \/ \E s \in StageIds : StageStep(s))

----------------------------------------------------------------------------
(* Absent inputs *)

NilArg(call) == \E i \in DOMAIN call.args : call.args[i] = Nil

\* C1: every transform (Map, Filter, Zip, Take, Skip) given a nil input returns
\* nil and starts no goroutine: no stage of a transform reads the nil channel,
\* and the last transform call made with a nil argument returned nil.
C1_AbsentInputAbsentOutput ==
    /\ \A s \in StageIds :
          stages[s].kind \in Transforms =>
            /\ stages[s].src # Nil
            /\ stages[s].kind = "Zip" => stages[s].src2 # Nil
    /\ (lastCall.op \in Transforms /\ NilArg(lastCall)) => lastCall.ret = Nil

----------------------------------------------------------------------------
(* Take *)

\* C2: Take(input, n) never receives more than n values from input: taken,
\* which counts the values the Take goroutine has received, stays at most count.
C2_TakeReceivesAtMostCount ==
    \A s \in StageIds :
        stages[s].kind = "Take" => stages[s].taken <= stages[s].count

\* a transport that never delivers a value and never closes
Silent(c) == c # Nil /\ stages[c].kind = "Caller"

\* C3: once Take(input, n) has forwarded n values it closes its output without
\* waiting on input, even when input never delivers a value and never closes:
\* a Take that has forwarded n values (for n = 0: from its start) is never found
\* in a receive from a silent input.
C3_TakeClosesWithoutWaiting ==
    \A s \in StageIds :
        (stages[s].kind = "Take" /\ stages[s].sent = stages[s].count /\ Silent(stages[s].src))
            => stages[s].pc # "recv"

----------------------------------------------------------------------------
(* Zip *)

\* C4: Zip stops as soon as either input has closed, whatever the other input
\* does: once it has seen xs closed it is never found in a receive from a
\* silent ys, and while ys is closed it is never found in a receive from a
\* silent xs.
C4_ZipStopsWhenEitherCloses ==
    \A s \in StageIds :
        stages[s].kind = "Zip" =>
            /\ (closed[stages[s].src] /\ ~stages[s].hasX /\ Silent(stages[s].src2))
                    => stages[s].pc # "recvY"
            /\ (closed[stages[s].src2] /\ Silent(stages[s].src))
                    => stages[s].pc # "recv"

----------------------------------------------------------------------------
(* countOrTimeOut *)

\* C5: after countOrTimeOut returned the sentinel, the counting goroutine is not
\* stuck once the source has closed: it is never left in its send of the count
\* on ch, from which main no longer receives.
C5_CounterNotStuckAfterTimeout ==
    \A s \in StageIds :
        (/\ stages[s].kind = "Count"
         /\ ret = <<TimedOut>>
         /\ stages[s].src # Nil
         /\ closed[stages[s].src])
            => stages[s].pc # "send"

----------------------------------------------------------------------------
(* Closing from the outside *)

\* the Take reading channel c has broken out of its loop: it reads no more
ConsumerStopped(c) ==
    \E t \in StageIds :
        /\ stages[t].kind = "Take"
        /\ stages[t].src = c
        /\ stages[t].taken > stages[t].count

\* C6: when the consumer of a Fibonaccis() channel has stopped reading and main
\* closes that channel, the producer ends without a fault: its goroutine never
\* panics with a send on the closed channel.
C6_ExternalCloseEndsProducer ==
    \A s \in StageIds :
        (stages[s].kind = "Fibonaccis" /\ ConsumerStopped(s) /\ s \in mainClosed)
            => fault # <<"send on closed channel", s>>

----------------------------------------------------------------------------
(* Ownership of transports *)

Chans == 1..Len(closed)

\* C7: in a composition of From, Map, Filter, Zip, Take and Skip that nothing
\* closes from the outside, every channel is closed at most once and only by
\* the goroutine that made it as its output, which is not one that reads it;
\* after closing it that goroutine has ended, so it sends no more; and no
\* goroutine panics.
C7_StagesOwnTheirOutputs ==
    /\ fault = NoFault
    /\ \A c \in Chans :
          /\ Len(closers[c]) <= 1
          /\ closed[c] <=> closers[c] # <<>>
          /\ \A i \in DOMAIN closers[c] :
                LET s == closers[c][i]
                IN /\ s \in StageIds
                   /\ stages[s].out = c
                   /\ stages[s].src # c
                   /\ stages[s].src2 # c
                   /\ stages[s].pc = "done"
          /\ \A s \in StageIds :
                (stages[s].out = c /\ closed[c]) => stages[s].pc = "done"

\* a Zip has closed its own output after its shorter input closed, while the
\* From feeding its other input is still blocked in a send on an open channel
C7_Witness ==
    \E s \in StageIds :
        /\ stages[s].kind = "Zip"
        /\ stages[s].pc = "done"
        /\ closers[s] = <<s>>
        /\ closers[stages[s].src] = <<stages[s].src>>
        /\ stages[stages[s].src2].kind = "From"
        /\ stages[stages[s].src2].pc = "send"
        /\ ~closed[stages[s].src2]

----------------------------------------------------------------------------
(* List semantics of the pipelines *)

Min(m, n) == IF m <= n THEN m ELSE n

\* concatInts has returned from draining channel c
Drained(c) == cur = c /\ c # Nil /\ mpc = "closing" /\ lastCall.op = "concatInts"

\* C8: From(L) delivers to concatInts exactly the elements of L in order and
\* then closes its output, once, after the last element has been sent; for the
\* empty L it closes with nothing sent.
C8_FromDeliversSlice ==
    (cur # Nil /\ stages[cur].kind = "From") =>
        LET st == stages[cur]
        IN /\ Len(got) <= Len(st.list)
           /\ got = SubSeq(st.list, 1, Len(got))
           /\ closed[cur] => st.sent = Len(st.list)
           /\ Len(closers[cur]) <= 1
           /\ Drained(cur) => (got = st.list /\ closers[cur] = <<cur>>)

\* concatInts has returned with both elements of a two-element slice, in order
C8_Witness ==
    /\ cur # Nil
    /\ stages[cur].kind = "From"
    /\ Drained(cur)
    /\ Len(got) = 2
    /\ got[1] # got[2]
    /\ got = stages[cur].list

\* c is the output of a chain of Map and Filter stages over a From
RECURSIVE MapFilterChain(_)
MapFilterChain(c) ==
    \/ stages[c].kind = "From"
    \/ stages[c].kind \in {"Map", "Filter"} /\ MapFilterChain(stages[c].src)

\* [f(x) for x in l], and l without the elements that fail p
MapList(l) == [i \in 1..Len(l) |-> square(l[i])]
FilterList(l) == SelectSeq(l, isEven)

\* the list a chain of Map and Filter stages denotes
RECURSIVE ListOf(_)
ListOf(c) ==
    CASE stages[c].kind = "From" -> stages[c].list
      [] stages[c].kind = "Map" -> MapList(ListOf(stages[c].src))
      [] stages[c].kind = "Filter" -> FilterList(ListOf(stages[c].src))

\* C9: a chain of Map and Filter stages over From(L) delivers to concatInts
\* exactly the list the chain denotes, in order, and then closes: f applied to
\* every element for Map, the elements satisfying p for Filter.
C9_MapFilterListSemantics ==
    (/\ cur # Nil
     /\ stages[cur].kind \in {"Map", "Filter"}
     /\ MapFilterChain(cur)) =>
        /\ Len(got) <= Len(ListOf(cur))
        /\ got = SubSeq(ListOf(cur), 1, Len(got))
        /\ Drained(cur) => (got = ListOf(cur) /\ closers[cur] = <<cur>>)

\* Filter(Map(From(L), square), isEven) has delivered the one even square of a
\* two-element L and closed
C9_Witness ==
    /\ cur # Nil
    /\ Drained(cur)
    /\ stages[cur].kind = "Filter"
    /\ stages[stages[cur].src].kind = "Map"
    /\ stages[stages[stages[cur].src].src].kind = "From"
    /\ Len(stages[stages[stages[cur].src].src].list) = 2
    /\ Len(got) = 1
    /\ got = ListOf(cur)

\* C10: Take(From(L), n) delivers to concatInts exactly the first
\* min(n, length(L)) elements of L in order and then closes its output, also
\* when L ends before n values have arrived.
C10_TakeFromPrefix ==
    (/\ cur # Nil
     /\ stages[cur].kind = "Take"
     /\ stages[stages[cur].src].kind = "From") =>
        LET l == stages[stages[cur].src].list
            n == Min(stages[cur].count, Len(l))
        IN /\ Len(got) <= n
           /\ got = SubSeq(l, 1, Len(got))
           /\ Drained(cur) => (got = SubSeq(l, 1, n) /\ closers[cur] = <<cur>>)

\* Take(From(L), 1) over a two-element L has delivered L's first element only
\* and closed
C10_Witness ==
    /\ cur # Nil
    /\ Drained(cur)
    /\ stages[cur].kind = "Take"
    /\ stages[cur].count = 1
    /\ stages[stages[cur].src].kind = "From"
    /\ Len(stages[stages[cur].src].list) = 2
    /\ got = <<stages[stages[cur].src].list[1]>>
    /\ closed[cur]

----------------------------------------------------------------------------
(* Skip and Zip over From *)

\* C11: Skip(From(L), n) delivers to concatInts exactly L without its first
\* min(n, length(L)) elements, in order, and closes its output once, after its
\* input has closed; with n = 0 it delivers all of L.
C11_SkipFromSuffix ==
    (/\ cur # Nil
     /\ stages[cur].kind = "Skip"
     /\ stages[stages[cur].src].kind = "From") =>
        LET l == stages[stages[cur].src].list
            n == Min(stages[cur].count, Len(l))
            rest == SubSeq(l, n + 1, Len(l))
        IN /\ Len(got) <= Len(rest)
           /\ got = SubSeq(rest, 1, Len(got))
           /\ closed[cur] => closed[stages[cur].src]
           /\ Drained(cur) => (got = rest /\ closers[cur] = <<cur>>)
           /\ (Drained(cur) /\ stages[cur].count = 0) => got = l

\* Skip(From(L), 1) over a two-element L has delivered L's second element only
\* and closed
C11_Witness ==
    /\ cur # Nil
    /\ Drained(cur)
    /\ stages[cur].kind = "Skip"
    /\ stages[cur].count = 1
    /\ stages[stages[cur].src].kind = "From"
    /\ Len(stages[stages[cur].src].list) = 2
    /\ stages[stages[cur].src].list[1] # stages[stages[cur].src].list[2]
    /\ got = <<stages[stages[cur].src].list[2]>>
    /\ closed[cur]

\* [f(a[i], b[i]) for i up to the shorter length]
ZipList(a, b) == [i \in 1..Min(Len(a), Len(b)) |-> product(a[i], b[i])]

\* C12: Zip(From(A), From(B), f) delivers to concatInts exactly
\* min(length(A), length(B)) elements, the i-th being f(A[i], B[i]), and then
\* closes its output, whichever of A and B is the longer.
C12_ZipFromPairs ==
    (/\ cur # Nil
     /\ stages[cur].kind = "Zip"
     /\ stages[stages[cur].src].kind = "From"
     /\ stages[stages[cur].src2].kind = "From") =>
        LET l == ZipList(stages[stages[cur].src].list, stages[stages[cur].src2].list)
        IN /\ Len(got) <= Len(l)
           /\ got = SubSeq(l, 1, Len(got))
           /\ Drained(cur) => (got = l /\ closers[cur] = <<cur>>)

\* Zip(From(A), From(B), product) with one element in A and two in B has
\* delivered the one product and closed
C12_Witness ==
    /\ cur # Nil
    /\ Drained(cur)
    /\ stages[cur].kind = "Zip"
    /\ stages[stages[cur].src].kind = "From"
    /\ stages[stages[cur].src2].kind = "From"
    /\ Len(stages[stages[cur].src].list) = 1
    /\ Len(stages[stages[cur].src2].list) = 2
    /\ got = <<product(stages[stages[cur].src].list[1], stages[stages[cur].src2].list[1])>>
    /\ closed[cur]

----------------------------------------------------------------------------
(* Aggregators *)

\* main's aggregator has returned
HasReturned(op) == lastCall.op = op /\ ret # <<>>

RECURSIVE SumList(_)
SumList(l) == IF l = <<>> THEN 0 ELSE l[1] + SumList(Tail(l))

\* C13: Count(From(L)) returns length(L) and Sum(From(L)) returns the
\* arithmetic sum of L, and neither returns before From's channel is closed.
C13_CountAndSumOfFrom ==
    (cur # Nil /\ stages[cur].kind = "From") =>
        LET l == stages[cur].list
        IN /\ HasReturned("Count") => (ret = <<Len(l)>> /\ closed[cur])
           /\ HasReturned("Sum") => (ret = <<SumList(l)>> /\ closed[cur])
           /\ (lastCall.op \in {"Count", "Sum"} /\ ~closed[cur]) => ret = <<>>

\* Sum has returned the sum of a From of two different elements
C13_Witness ==
    /\ cur # Nil
    /\ stages[cur].kind = "From"
    /\ HasReturned("Sum")
    /\ Len(stages[cur].list) = 2
    /\ stages[cur].list[1] # stages[cur].list[2]
    /\ ret = <<stages[cur].list[1] + stages[cur].list[2]>>

\* the greatest element of a non-empty l
Greatest(l) ==
    CHOOSE m \in {l[i] : i \in DOMAIN l} : \A i \in DOMAIN l : l[i] <= m

\* C14: Max(From(L)) returns the greatest element of a non-empty L, also when
\* every element is below zero, and the zero value for the empty L.
C14_MaxOfFrom ==
    (cur # Nil /\ stages[cur].kind = "From" /\ HasReturned("Max")) =>
        LET l == stages[cur].list
        IN ret = <<IF l = <<>> THEN 0 ELSE Greatest(l)>>

\* Max has returned a negative maximum: every element of L is below zero
C14_Witness ==
    /\ cur # Nil
    /\ stages[cur].kind = "From"
    /\ HasReturned("Max")
    /\ Len(stages[cur].list) = 2
    /\ \A i \in DOMAIN stages[cur].list : stages[cur].list[i] < 0
    /\ ret = <<-1>>

\* channel c is closed and nothing was ever sent on it
EmptyClosed(c) == c # Nil /\ closed[c] /\ stages[c].sent = 0

\* C15: over an input that is closed with nothing sent, the aggregator main
\* called does not block (its receive can complete) and what it returns is the
\* zero value: 0 for First, Last, Max and Sum, and 0 for Count.
C15_EmptyInputDefaults ==
    (lastCall.op \in Aggregators /\ EmptyClosed(cur)) =>
        /\ mpc = "agg" => CanRecv(cur)
        /\ mpc # "agg" => ret = <<0>>

\* Last has returned the zero value over From of the empty slice
C15_Witness ==
    /\ HasReturned("Last")
    /\ EmptyClosed(cur)
    /\ stages[cur].kind = "From"
    /\ stages[cur].list = <<>>
    /\ ret = <<0>>

----------------------------------------------------------------------------
(* Termination of finite chains *)

\* the aggregators that range over their input until it is closed
Draining == {"Count", "Sum", "Max", "Last"}

\* every goroutine main started has run to its end
AllDone == \A s \in StageIds : stages[s].pc = "done"

\* C18: when a chain of Map, Filter and Skip stages over From(L) is consumed by
\* Count, Sum, Max or Last, then under fair scheduling the aggregator returns
\* and every stage goroutine of the chain ends: none stays blocked in a send
\* or a receive.
C18_FiniteChainTerminates ==
    (mpc = "agg" /\ lastCall.op \in Draining) ~> (ret # <<>> /\ AllDone)

\* Sum has returned over a chain of a Skip that dropped an element and a Map
\* over a two-element From, and the three goroutines have ended
C18_Witness ==
    /\ HasReturned("Sum")
    /\ AllDone
    /\ Len(stages) = 3
    /\ Len(stages[1].list) = 2
    /\ \E s \in StageIds : stages[s].kind = "Skip" /\ stages[s].count = 1
    /\ \E s \in StageIds : stages[s].kind = "Map"

----------------------------------------------------------------------------
(* Fibonaccis *)

\* the first ten Fibonacci numbers
TenFibs == <<1, 1, 2, 3, 5, 8, 13, 21, 34, 55>>

\* main is in, or has returned from, concatInts over Take(Fibonaccis(), 10)
TakesTenFibs ==
    /\ cur # Nil
    /\ lastCall.op = "concatInts"
    /\ stages[cur].kind = "Take"
    /\ stages[cur].count = FirstTen
    /\ stages[stages[cur].src].kind = "Fibonaccis"

\* C16: Take(Fibonaccis(), 10) delivers to concatInts exactly 1, 1, 2, 3, 5, 8,
\* 13, 21, 34, 55 in that order and then closes its output, though Fibonaccis
\* never closes its own; under fair scheduling concatInts returns.
C16_TakeTenFibonaccis ==
    /\ [](TakesTenFibs =>
            /\ Len(got) <= Len(TenFibs)
            /\ got = SubSeq(TenFibs, 1, Len(got))
            /\ ~closed[stages[cur].src]
            /\ Drained(cur) => (got = TenFibs /\ closers[cur] = <<cur>>))
    /\ (TakesTenFibs /\ mpc = "drain") ~> (TakesTenFibs /\ Drained(cur))

\* concatInts has returned with the ten numbers; Fibonaccis' channel is open
C16_Witness ==
    /\ TakesTenFibs
    /\ Drained(cur)
    /\ got = TenFibs
    /\ closed[cur]
    /\ ~closed[stages[cur].src]

----------------------------------------------------------------------------
(* countOrTimeOut over sources that close and sources that do not *)

\* channel c is the output of a chain of Map and Filter stages over Fibonaccis:
\* no goroutine ever closes it
RECURSIVE NeverCloses(_)
NeverCloses(c) ==
    /\ c # Nil
    /\ \/ stages[c].kind = "Fibonaccis"
       \/ stages[c].kind \in {"Map", "Filter"} /\ NeverCloses(stages[c].src)

\* C17: what countOrTimeOut returns is the sentinel -1 or the number of values
\* its source delivered before it closed; over a source that never closes the
\* counting goroutine never offers a count, every value returned is -1, and
\* the deadline branch of the select can always be taken.
C17_CountOrSentinel ==
    \A s \in StageIds :
        (stages[s].kind = "Count" /\ stages[s].src # Nil) =>
            LET c == stages[s].src
            IN /\ ret # <<>> =>
                    \/ ret = <<TimedOut>>
                    \/ closed[c] /\ ret = <<stages[c].sent>>
               /\ NeverCloses(c) =>
                    /\ Senders(cur) = {}
                    /\ stages[s].pc = "recv"
                    /\ ret \in {<<>>, <<TimedOut>>}
               /\ mpc = "select" => ENABLED SelectTimeout

\* countOrTimeOut(Fibonaccis(), 1) has returned -1 while its goroutine had
\* counted values and goes on counting
C17_Witness ==
    \E s \in StageIds :
        /\ stages[s].kind = "Count"
        /\ stages[s].src # Nil
        /\ stages[stages[s].src].kind = "Fibonaccis"
        /\ stages[s].count >= 2
        /\ ret = <<TimedOut>>

----------------------------------------------------------------------------
(* Synchronous hand-off *)

\* the values goroutine s has received from its input so far: Take counts them
\* in taken, Skip in skipped, and Map has sent one value per value received
\* but the one it holds
Received(s) ==
    CASE stages[s].kind = "Take" -> stages[s].taken
      [] stages[s].kind = "Skip" -> stages[s].skipped
      [] stages[s].kind = "Map" ->
            stages[s].sent + (IF stages[s].pc = "send" THEN 1 ELSE 0)

\* C19: the sends a stage has completed on its output are as many as the
\* receives its consumer (a Map, Take or Skip stage, or concatInts) has
\* completed on it, none when nobody reads it; and a Fibonaccis feeding
\* Take(_, n) completes at most n + 1 sends: once Take has left its loop, it
\* has completed exactly n + 1 and stays in its next send on an open channel
\* that no goroutine receives from.
C19_SynchronousHandOff ==
    \A c \in StageIds :
        /\ \A s \in StageIds : stages[s].src = c => stages[c].sent = Received(s)
        /\ (cur = c /\ lastCall.op = "concatInts") => stages[c].sent = Len(got)
        /\ (cur # c /\ \A s \in StageIds : stages[s].src # c) => stages[c].sent = 0
        /\ \A s \in StageIds :
              (/\ stages[c].kind = "Fibonaccis"
               /\ stages[s].kind = "Take"
               /\ stages[s].src = c) =>
                    /\ stages[c].sent <= stages[s].count + 1
                    /\ stages[s].pc \in {"close", "done"} =>
                          /\ stages[c].sent = stages[s].count + 1
                          /\ stages[c].pc = "send"
                          /\ ~closed[c]
                          /\ \A t \in StageIds :
                                stages[t].src = c => stages[t].pc \notin {"recv", "recvY"}

\* Take(Fibonaccis(), 2) has ended after three receives, and Fibonaccis is in
\* its fourth send
C19_Witness ==
    \E c, s \in StageIds :
        /\ stages[c].kind = "Fibonaccis"
        /\ stages[s].kind = "Take"
        /\ stages[s].src = c
        /\ stages[s].count = 2
        /\ stages[s].pc = "done"
        /\ stages[c].sent = 3
        /\ stages[c].pc = "send"

----------------------------------------------------------------------------
(* Width of int *)

\* C20: every value Fibonaccis() sends is the Fibonacci number of its
\* position: of the values concatInts has received from it, the first two are
\* 1 and each later one is positive and is the sum, without wraparound, of the
\* two before it.
C20_FibonaccisTrueValues ==
    (cur # Nil /\ lastCall.op = "concatInts" /\ stages[cur].kind = "Fibonaccis") =>
        \A i \in DOMAIN got :
            IF i <= 2 THEN got[i] = 1
            ELSE got[i] > 0 /\ got[i] - got[i - 1] = got[i - 2]

----------------------------------------------------------------------------
(* What Zip consumes *)

\* C21: in every round Zip receives from xs first and from ys second and only
\* then tests for closure.  For Zip(From(A), From(B), f), with the values
\* received from an input counted by the sends its From has completed: before
\* a round both counts are equal, between the two receives xs is one ahead
\* unless it was found closed; once Zip has left its loop it has received
\* exactly min(length(A), length(B) + 1) values from xs and
\* min(length(B), length(A) + 1) from ys, one more than it forwarded from the
\* longer input; and the longer From has ended only if it is at most one
\* longer than the shorter, and otherwise stays in a send.
C21_ZipConsumesOneBeyond ==
    \A z \in StageIds :
        (/\ stages[z].kind = "Zip"
         /\ stages[stages[z].src].kind = "From"
         /\ stages[stages[z].src2].kind = "From") =>
            LET xs == stages[stages[z].src]
                ys == stages[stages[z].src2]
                la == Len(xs.list)
                lb == Len(ys.list)
                left == stages[z].pc \in {"close", "done"}
            IN /\ stages[z].pc = "recv" => (xs.sent = ys.sent /\ xs.sent = stages[z].sent)
               /\ stages[z].pc = "recvY" =>
                    xs.sent = ys.sent + (IF stages[z].hasX THEN 1 ELSE 0)
               /\ stages[z].pc = "send" => (xs.sent = ys.sent /\ xs.sent = stages[z].sent + 1)
               /\ xs.sent <= Min(la, lb + 1)
               /\ ys.sent <= Min(lb, la + 1)
               /\ left =>
                    /\ xs.sent = Min(la, lb + 1)
                    /\ ys.sent = Min(lb, la + 1)
                    /\ stages[z].sent = Min(la, lb)
                    /\ la > lb + 1 => (xs.pc = "send" /\ ~closed[stages[z].src])
                    /\ lb > la + 1 => (ys.pc = "send" /\ ~closed[stages[z].src2])
               /\ (xs.pc = "done" /\ la > lb) => la = lb + 1
               /\ (ys.pc = "done" /\ lb > la) => lb = la + 1

\* Zip over an empty A and a two-element B has ended: it took B's first value
\* and dropped it, and B's From is left in the send of the second
C21_Witness ==
    \E z \in StageIds :
        /\ stages[z].kind = "Zip"
        /\ stages[z].pc = "done"
        /\ stages[stages[z].src].kind = "From"
        /\ stages[stages[z].src2].kind = "From"
        /\ stages[stages[z].src].list = <<>>
        /\ Len(stages[stages[z].src2].list) = 2
        /\ stages[stages[z].src2].sent = 1
        /\ stages[stages[z].src2].pc = "send"
        /\ stages[z].sent = 0

====
